---- MODULE Spec2Model ----
(***************************************************************************)
(* MIDIKitty synthesis engine (src/src/engine.rs).                         *)
(*                                                                         *)
(* Four execution contexts are modelled:                                    *)
(*   - the caller of Synth::connect (main thread),                         *)
(*   - the device callback registered with the MIDI input (producer),      *)
(*   - the spawned consumer thread owning Inner (stream + sources),        *)
(*   - the audio backend, which polls each voice and drops finished ones.  *)
(*                                                                         *)
(* A voice is the pair (receiver end of its cancellation channel, source   *)
(* handed to the mixer).  Its handle is the Sender kept in Inner.sources.  *)
(* Voices are numbered in creation order; the number identifies both the   *)
(* voice and its handle.                                                   *)
(***************************************************************************)
EXTENDS Integers, Sequences, FiniteSets, TLC

\* ---------------------------------------------------------------- bounds

\* Number of device messages a behaviour of Spec may deliver.
MaxMsgs == 3

\* Number of device messages a behaviour of SpecSweep may deliver.
SweepLen == 129

\* Number of device messages a behaviour of SpecDuo may deliver.
DuoMsgs == 4

\* Number of device messages a behaviour of SpecLive may deliver.
LiveMsgs == 3

\* ------------------------------------------------------ program constants

NOTE_ON_MSG == 144
NOTE_OFF_MSG == 128
MAX_VELOCITY == 127

\* ------------------------------------------------------------- the inputs

\* Raw device messages the callback may be invoked with: every row of the
\* match in the consumer loop, two notes in the MIDI range and one note
\* byte above it, and frames of a wrong length or with another status byte.
Messages ==
    { <<NOTE_ON_MSG, 60, 100>>,
      <<NOTE_ON_MSG, 60, 0>>,
      <<NOTE_OFF_MSG, 60, 64>>,
      <<NOTE_ON_MSG, 61, 80>>,
      <<NOTE_OFF_MSG, 61, 0>>,
      <<176, 60, 100>>,
      <<NOTE_ON_MSG, 200, 1>>,
      <<NOTE_ON_MSG, 60>>,
      <<NOTE_ON_MSG, 60, 100, 0>> }

VARIABLES
    connection,   \* Synth.connection: "None" | "Some"
    result,       \* what connect() returned: "pending" | "Ok" | "Err"
    ports,        \* in_ports.len() as seen by connect(); -1 before the call
    evRx,         \* receiving end of the event channel: "none" | "alive" | "dropped"
    queue,        \* messages in the event channel
    callback,     \* the device callback: "none" | "running" | "panicked"
    pc,           \* the consumer thread's position
    stream,       \* Inner.stream: "None" | "Some"
    sources,      \* Inner.sources: set of <<note, handle>>
    voices,       \* every voice created so far, by handle
    op,           \* the call the match selected for the last dequeued message
    old,          \* play(): the handle insert() returned, 0 for None
    arrived,      \* history: messages the callback was invoked with
    dequeued,     \* history: messages the consumer loop took from the channel
    fq,           \* frequency(): the call being evaluated, [note, hz]
    pad_state,    \* Grid.pad_state: pad index -> active
    mode,         \* MIDIKitty.mode
    running,      \* MIDIKitty.running
    last_press    \* history: <<row, col>> of the last pad press, <<>> if none

\* The engine's state (src/src/engine.rs).
engineVars == <<connection, result, ports, evRx, queue, callback, pc, stream,
                sources, voices, op, old, arrived, dequeued>>

\* The state of frequency() evaluations and of the terminal application
\* (src/src/main.rs), which the engine's threads never touch.
sideVars == <<fq, pad_state, mode, running, last_press>>

vars == <<engineVars, sideVars>>

\* ------------------------------------------------------------- the decoder

NoOp == [kind |-> "none", note |-> 0, velocity |-> 0]
StopOp(n) == [kind |-> "stop", note |-> n, velocity |-> 0]
PlayOp(n, v) == [kind |-> "play", note |-> n, velocity |-> v]

\* Variant of Decode with the first two arms of the match swapped: a
\* note-on with velocity 0 is played instead of releasing the note.
DecodeNoteOnFirst(m) ==
    IF Len(m) = 3 /\ m[1] = NOTE_ON_MSG THEN PlayOp(m[2], m[3])
    ELSE IF Len(m) = 3 /\ m[1] = NOTE_OFF_MSG THEN StopOp(m[2])
    ELSE NoOp

\* match message[..] { ... }: the first matching arm is taken.
Decode(m) ==
    IF Len(m) = 3 /\ m[1] = NOTE_ON_MSG /\ m[3] = 0 THEN StopOp(m[2])
    ELSE IF Len(m) = 3 /\ m[1] = NOTE_ON_MSG THEN PlayOp(m[2], m[3])
    ELSE IF Len(m) = 3 /\ m[1] = NOTE_OFF_MSG THEN StopOp(m[2])
    ELSE NoOp

\* ------------------------------------------------------------ the registry

\* self.sources.get(&note): the handles registered for note.
Get(reg, n) == { e[2] : e \in { x \in reg : x[1] = n } }

\* Variant of Insert that keeps an existing entry (entry().or_insert(tx)).
InsertKeepOld(reg, n, h) ==
    IF \E e \in reg : e[1] = n THEN reg ELSE reg \cup { <<n, h>> }

\* self.sources.insert(note, tx): the map after the insert.
Insert(reg, n, h) == { e \in reg : e[1] # n } \cup { <<n, h>> }

\* The value insert() returns: the handle it replaced, 0 for None.
Replaced(reg, n) == IF Get(reg, n) = {} THEN 0 ELSE CHOOSE h \in Get(reg, n) : TRUE

\* ---------------------------------------------------------------- voices

\* The receiving end of a voice's cancellation channel lives in the voice's
\* source; it is gone once the source has been dropped.
RxAlive(h) == voices[h].state # "dropped"

\* tx.send(()): the voices after a send on handle h that succeeded.
Signalled(vs, h) == [vs EXCEPT ![h].sigs = @ + 1]

\* Dropping the output stream drops every source it still holds.
AllDropped(vs) == [h \in DOMAIN vs |-> [vs[h] EXCEPT !.state = "dropped"]]

\* ------------------------------------------------------------ frequency()

\* `note as i16`: the value of x in 16-bit two's complement.
AsI16(x) == ((x + 32768) % 65536) - 32768

\* Variant of Semitones that takes the reference pitch to be note 60.
SemitonesFrom60(note) == AsI16(AsI16(note) - 60)

\* frequency(): note as i16 - 69, the distance from A4 in semitones.
Semitones(note) == AsI16(AsI16(note) - 69)

\* exp2 is evaluated in fixed point, in units of 1/100000 Hz.  The table
\* holds 440 * 2^(4 + r/12) in that unit, rounded to the nearest integer,
\* for the twelve semitones r of the octave that starts 48 above A4.
TopOctave ==
    << 704000000, 745862018, 790213282, 837201809, 886984419, 939727257,
       995606348, 1054808182, 1117530341, 1183982153, 1254385395, 1328975032 >>

Pow2(e) == 2 ^ e

\* 440.0 * (k as f64 / 12.0).exp2() for k semitones, in 1/100000 Hz.
Hz(k) ==
    LET q == k \div 12
        r == k % 12
    IN  IF q <= 4
        THEN (TopOctave[r + 1] + (Pow2(4 - q) \div 2)) \div Pow2(4 - q)
        ELSE TopOctave[r + 1] * Pow2(q - 4)

\* pub fn frequency(note: Note) -> f64
frequency(note) == Hz(Semitones(note))

\* --------------------------------------------------------- terminal grid

\* MIDIKitty::new: Grid::new(3, 8)
ROWS == 3
COLS == 8

\* MIDIKitty::new: the keymap, key code -> (row, col), row by row.
KeymapRows ==
    << <<"q", "w", "e", "r", "t", "y", "u", "i">>,
       <<"a", "s", "d", "f", "g", "h", "j", "k">>,
       <<"z", "x", "c", "v", "b", "n", "m", ",">> >>

\* self.keymap.get(&key.code): the set holding the mapped cell, {} for None.
KeymapGet(code) ==
    { <<row, col>> \in (0..(ROWS - 1)) \X (0..(COLS - 1)) :
        KeymapRows[row + 1][col + 1] = code }

\* Grid::new: pad_state = vec![PadState::default(); rows * cols]
GridNew == [i \in 0..(ROWS * COLS - 1) |-> FALSE]

\* Variant of grid_index that uses the number of rows as the stride.
grid_index_by_rows(row, col) == row * ROWS + col

\* Grid::grid_index
grid_index(row, col) == row * COLS + col

\* Grid::play: pad i is active exactly when i is the pressed pad's index.
GridPlay(ps, row, col) ==
    [i \in 0..(ROWS * COLS - 1) |-> i = grid_index(row, col)]

\* The states of frequency() and of the terminal application before any
\* call: MIDIKitty::default(), then Grid::new in MIDIKitty::new.
SideInit ==
    /\ fq = [note |-> 0, hz |-> 0]
    /\ pad_state = GridNew
    /\ mode = "MIDI"
    /\ running = FALSE
    /\ last_press = <<>>

\* ------------------------------------------------------------------- Init

EngineInit ==
    /\ connection = "None"
    /\ result = "pending"
    /\ ports = -1
    /\ evRx = "none"
    /\ queue = <<>>
    /\ callback = "none"
    /\ pc = "unspawned"
    /\ stream = "None"
    /\ sources = {}
    /\ voices = <<>>
    /\ op = NoOp
    /\ old = 0
    /\ arrived = <<>>
    /\ dequeued = <<>>

Init == EngineInit /\ SideInit

\* ------------------------------------------------------- Synth::connect()

\* Variant of ConnectResult without the arm for 0 ports.
ConnectResultNoPortCheck(midiOk, nports, connOk) ==
    IF ~midiOk THEN "Err"
    ELSE IF ~connOk THEN "Err"
    ELSE "Ok"

\* What connect() returns, from the outcome of MidiInput::new, the number
\* of ports found and the outcome of midi_in.connect.
ConnectResult(midiOk, nports, connOk) ==
    IF ~midiOk THEN "Err"
    ELSE IF nports = 0 THEN "Err"
    ELSE IF ~connOk THEN "Err"
    ELSE "Ok"

\* Whether connect() got as far as mpsc::channel().
ChannelCreated(midiOk, nports) == midiOk /\ nports # 0

Connect ==
    /\ result = "pending"
    /\ \E midiOk \in BOOLEAN, nports \in 0..2, connOk \in BOOLEAN :
        LET r == ConnectResult(midiOk, nports, connOk) IN
        /\ result' = r
        /\ ports' = IF midiOk THEN nports ELSE -1
        /\ connection' = IF r = "Ok" THEN "Some" ELSE connection
        /\ callback' = IF r = "Ok" THEN "running" ELSE callback
        /\ evRx' = IF r = "Ok" THEN "alive"
                   ELSE IF ChannelCreated(midiOk, nports) THEN "dropped"
                   ELSE evRx
        /\ pc' = IF r = "Ok" THEN "opening" ELSE pc
    /\ UNCHANGED <<queue, stream, sources, voices, op, old, arrived, dequeued>>
    /\ UNCHANGED sideVars

\* -------------------------------------------------------- device callback

\* move |stamp, message, _| { tx.send((stamp, message.to_vec())).unwrap(); }
Deliver(m) ==
    /\ callback = "running"
    /\ arrived' = Append(arrived, m)
    /\ IF evRx = "alive"
       THEN /\ queue' = Append(queue, m)
            /\ callback' = callback
       ELSE /\ queue' = queue
            /\ callback' = "panicked"
    /\ UNCHANGED <<connection, result, ports, evRx, pc, stream, sources,
                   voices, op, old, dequeued>>
    /\ UNCHANGED sideVars

\* --------------------------------------------------------- consumer thread

\* The consumer thread unwinds: Inner (stream, sources) and the receiving
\* end of the event channel are dropped.
Unwind(why) ==
    /\ pc' = why
    /\ evRx' = "dropped"
    /\ queue' = <<>>
    /\ stream' = "None"
    /\ sources' = {}
    /\ voices' = AllDropped(voices)

\* open_default_stream().expect("open default stream")
OpenStream ==
    /\ pc = "opening"
    /\ \E sinkOk \in BOOLEAN :
        IF sinkOk
        THEN /\ stream' = "Some"
             /\ pc' = "recv"
             /\ UNCHANGED <<evRx, queue, sources, voices>>
        ELSE Unwind("panic_open")
    /\ UNCHANGED <<connection, result, ports, callback, op, old, arrived, dequeued>>
    /\ UNCHANGED sideVars

\* Variant of StopPanics that also fails when the note has no entry
\* (self.sources.get(&note).unwrap()).
StopPanicsOnMissing(n) ==
    \/ Get(sources, n) = {}
    \/ \E h \in Get(sources, n) : ~RxAlive(h)

\* Inner::stop: whether tx.send(()).unwrap() panics for note n.
StopPanics(n) == \E h \in Get(sources, n) : ~RxAlive(h)

\* Inner::stop: the voices after the send.
StopVoices(n) ==
    IF Get(sources, n) = {} THEN voices
    ELSE Signalled(voices, Replaced(sources, n))

\* One iteration of `for (stamp, message) in rx`: dequeue and match.
\* stop() runs to completion here; play() continues in the steps below.
Recv ==
    /\ pc = "recv"
    /\ queue # <<>>
    /\ LET m == Head(queue)
           d == Decode(m) IN
        /\ dequeued' = Append(dequeued, m)
        /\ op' = d
        /\ IF d.kind = "stop" /\ StopPanics(d.note)
           THEN Unwind("panic_stop")
           ELSE /\ queue' = Tail(queue)
                /\ pc' = IF d.kind = "play" THEN "play_insert" ELSE "recv"
                /\ voices' = IF d.kind = "stop" THEN StopVoices(d.note) ELSE voices
                /\ UNCHANGED <<evRx, stream, sources>>
    /\ UNCHANGED <<connection, result, ports, callback, old, arrived>>
    /\ UNCHANGED sideVars

\* Variant of PlayInsert that hands the new voice to the mixer at once,
\* before the old handle is signalled.
PlayInsertIntoMixer ==
    /\ pc = "play_insert"
    /\ LET h == Len(voices) + 1 IN
        /\ voices' = Append(voices, [note |-> op.note, velocity |-> op.velocity,
                                     state |-> "sounding", sigs |-> 0])
        /\ old' = Replaced(sources, op.note)
        /\ sources' = Insert(sources, op.note, h)
        /\ pc' = IF Replaced(sources, op.note) # 0 THEN "play_signal" ELSE "play_add"
    /\ UNCHANGED <<connection, result, ports, evRx, queue, callback, stream,
                   op, arrived, dequeued>>
    /\ UNCHANGED sideVars

\* play(): let (tx, rx) = mpsc::channel(); self.sources.insert(note, tx)
PlayInsert ==
    /\ pc = "play_insert"
    /\ LET h == Len(voices) + 1 IN
        /\ voices' = Append(voices, [note |-> op.note, velocity |-> op.velocity,
                                     state |-> "created", sigs |-> 0])
        /\ old' = Replaced(sources, op.note)
        /\ sources' = Insert(sources, op.note, h)
        /\ pc' = IF Replaced(sources, op.note) # 0 THEN "play_signal" ELSE "play_add"
    /\ UNCHANGED <<connection, result, ports, evRx, queue, callback, stream,
                   op, arrived, dequeued>>
    /\ UNCHANGED sideVars

\* Variant of PlaySignal that unwraps the result of the send, as stop() does.
PlaySignalUnwrap ==
    /\ pc = "play_signal"
    /\ IF RxAlive(old)
       THEN /\ voices' = Signalled(voices, old)
            /\ pc' = "play_add"
            /\ UNCHANGED <<evRx, queue, stream, sources>>
       ELSE Unwind("panic_play")
    /\ UNCHANGED <<connection, result, ports, callback, op, old, arrived, dequeued>>
    /\ UNCHANGED sideVars

\* Variant of PlaySignal that drops the old handle without sending on it.
PlaySignalSkipped ==
    /\ pc = "play_signal"
    /\ pc' = "play_add"
    /\ UNCHANGED <<connection, result, ports, evRx, queue, callback, stream,
                   sources, voices, op, old, arrived, dequeued>>
    /\ UNCHANGED sideVars

\* play(): old_tx.send(()).unwrap_or_default()
PlaySignal ==
    /\ pc = "play_signal"
    /\ voices' = IF RxAlive(old) THEN Signalled(voices, old) ELSE voices
    /\ pc' = "play_add"
    /\ UNCHANGED <<connection, result, ports, evRx, queue, callback, stream,
                   sources, op, old, arrived, dequeued>>
    /\ UNCHANGED sideVars

\* play(): build the source around rx and hand it to the mixer.
PlayAdd ==
    /\ pc = "play_add"
    /\ IF stream = "Some"
       THEN /\ voices' = [voices EXCEPT ![Len(voices)].state = "sounding"]
            /\ pc' = "recv"
            /\ UNCHANGED <<evRx, queue, stream, sources>>
       ELSE Unwind("panic_play")
    /\ UNCHANGED <<connection, result, ports, callback, op, old, arrived, dequeued>>
    /\ UNCHANGED sideVars

\* ----------------------------------------------------------- audio backend

\* Variant of Poll whose closure receives the signal but does not skip.
PollWithoutSkip(h) ==
    /\ voices[h].state = "sounding"
    /\ voices[h].sigs > 0
    /\ UNCHANGED vars

\* periodic_access: if let Ok(_) = rx.try_recv() { Skippable::skip(s) }
Poll(h) ==
    /\ voices[h].state = "sounding"
    /\ voices[h].sigs > 0
    /\ voices' = [voices EXCEPT ![h].state = "stopped"]
    /\ UNCHANGED <<connection, result, ports, evRx, queue, callback, pc, stream,
                   sources, op, old, arrived, dequeued>>
    /\ UNCHANGED sideVars

\* The mixer drops a source that has ended, and with it the voice's rx.
MixerDrop(h) ==
    /\ voices[h].state = "stopped"
    /\ voices' = [voices EXCEPT ![h].state = "dropped"]
    /\ UNCHANGED <<connection, result, ports, evRx, queue, callback, pc, stream,
                   sources, op, old, arrived, dequeued>>
    /\ UNCHANGED sideVars

\* The source built for voice h: SineWave::new(frequency(note) as f32)
\* .amplify_normalized(velocity as f32 / MAX_VELOCITY as f32), as the note
\* passed to frequency() and the amplitude as a fraction <<num, den>>.
SourceNote(h) == voices[h].note
SourceAmplitude(h) == <<voices[h].velocity, MAX_VELOCITY>>

\* ------------------------------------------------------------------- Spec

Next ==
    \/ Connect
    \/ \E m \in Messages : Len(arrived) < MaxMsgs /\ Deliver(m)
    \/ OpenStream
    \/ Recv
    \/ PlayInsert
    \/ PlaySignal
    \/ PlayAdd
    \/ \E h \in DOMAIN voices : Poll(h)
    \/ \E h \in DOMAIN voices : MixerDrop(h)

Spec == Init /\ [][Next]_vars

\* ------------------------------------------------------------- SpecSweep
\* The device plays one ascending sweep over note bytes 0, 1, 2, ...: each
\* note-on is delivered once the consumer has finished the previous one, and
\* no note is released.

SweepArrive ==
    /\ Len(arrived) < SweepLen
    /\ pc = "recv"
    /\ queue = <<>>
    /\ Deliver(<<NOTE_ON_MSG, Len(arrived), 1>>)

SweepNext ==
    \/ Connect
    \/ SweepArrive
    \/ OpenStream
    \/ Recv
    \/ PlayInsert
    \/ PlayAdd

SpecSweep == Init /\ [][SweepNext]_vars

\* --------------------------------------------------------------- SpecDuo
\* The engine driven by note-on and note-off frames for two notes only,
\* which leaves room for longer runs than Spec.

DuoMessages ==
    { <<NOTE_ON_MSG, 60, 100>>,
      <<NOTE_ON_MSG, 60, 0>>,
      <<NOTE_OFF_MSG, 60, 64>>,
      <<NOTE_ON_MSG, 61, 80>>,
      <<NOTE_OFF_MSG, 61, 0>> }

DuoNext ==
    \/ Connect
    \/ \E m \in DuoMessages : Len(arrived) < DuoMsgs /\ Deliver(m)
    \/ OpenStream
    \/ Recv
    \/ PlayInsert
    \/ PlaySignal
    \/ PlayAdd
    \/ \E h \in DOMAIN voices : Poll(h)
    \/ \E h \in DOMAIN voices : MixerDrop(h)

SpecDuo == Init /\ [][DuoNext]_vars

\* -------------------------------------------------------------- SpecLive
\* SpecDuo's engine with shorter runs and a render context that keeps
\* polling: a voice that is sounding with a signal pending is eventually
\* polled (periodic_access calls the closure every 100 microseconds).

LiveNext ==
    \/ Connect
    \/ \E m \in DuoMessages : Len(arrived) < LiveMsgs /\ Deliver(m)
    \/ OpenStream
    \/ Recv
    \/ PlayInsert
    \/ PlaySignal
    \/ PlayAdd
    \/ \E h \in DOMAIN voices : Poll(h)
    \/ \E h \in DOMAIN voices : MixerDrop(h)

\* Poll(h) for a voice that exists.
PollVoice(h) == h \in DOMAIN voices /\ Poll(h)

SpecLive ==
    /\ Init
    /\ [][LiveNext]_vars
    /\ \A h \in 1..(LiveMsgs + 1) : WF_vars(PollVoice(h))

\* -------------------------------------------------------------- SpecFreq
\* frequency() applied once to a note of the MIDI range.

FreqNotes == 0..127

FreqInit ==
    /\ EngineInit
    /\ \E n \in FreqNotes : fq = [note |-> n, hz |-> -1]
    /\ pad_state = GridNew
    /\ mode = "MIDI"
    /\ running = FALSE
    /\ last_press = <<>>

FreqEval ==
    /\ fq.hz = -1
    /\ fq' = [fq EXCEPT !.hz = frequency(fq.note)]
    /\ UNCHANGED <<engineVars, pad_state, mode, running, last_press>>

SpecFreq == FreqInit /\ [][FreqEval]_vars

\* -------------------------------------------------------------- SpecGrid
\* The terminal application's event loop (src/src/main.rs), from the point
\* where run() has set running and connect() has returned Ok.

KeyCodes ==
    { KeymapRows[r][c] : r \in 1..ROWS, c \in 1..COLS } \cup {"Esc", "Tab", "C", "p"}

KeyModifiers == {"NONE", "CONTROL", "SHIFT"}

\* MIDIKitty::switch_mode
SwitchMode(m) ==
    IF m = "MIDI" THEN "Synth" ELSE IF m = "Synth" THEN "MIDI" ELSE m

\* The first arm of the match in on_key_event: Esc, or Ctrl-c / Ctrl-C.
Quits(code, mods) == code = "Esc" \/ (mods = "CONTROL" /\ code \in {"c", "C"})

GridInit ==
    /\ EngineInit
    /\ fq = [note |-> 0, hz |-> 0]
    /\ pad_state = GridNew
    /\ mode = "MIDI"
    /\ running = TRUE
    /\ last_press = <<>>

\* One iteration of the loop in run(): a key press handled by on_key_event.
\* play_key also calls self.engine.play, which engine.rs does not define;
\* it has no part in the grid's state.
OnKeyEvent(code, mods) ==
    /\ running
    /\ LET cell == KeymapGet(code)
           plays == mods = "NONE" /\ cell # {}
           rc == CHOOSE x \in cell : TRUE
       IN /\ pad_state' = IF plays THEN GridPlay(pad_state, rc[1], rc[2]) ELSE pad_state
          /\ last_press' = IF plays THEN rc ELSE last_press
    /\ running' = IF Quits(code, mods) THEN FALSE ELSE running
    /\ mode' = IF ~Quits(code, mods) /\ code = "Tab" THEN SwitchMode(mode) ELSE mode
    /\ UNCHANGED <<engineVars, fq>>

GridNext == \E code \in KeyCodes, mods \in KeyModifiers : OnKeyEvent(code, mods)

SpecGrid == GridInit /\ [][GridNext]_vars

\* ================================================================ claims

\* The consumer loop takes the next message in this step.
RecvStep == pc = "recv" /\ queue # <<>> /\ dequeued' = Append(dequeued, Head(queue))

\* The device callback is invoked in this step.
DeliverStep == callback = "running" /\ arrived' # arrived

\* The consumer thread has ended by a panic.
Panicked == pc \in {"panic_open", "panic_stop", "panic_play"}

\* Voices that still exist (their source has not been dropped).
Existing == { h \in DOMAIN voices : voices[h].state # "dropped" }

\* Note n is Idle: no existing voice of n is without a cancellation signal.
Idle(n) == \A h \in Existing : voices[h].note = n => voices[h].sigs > 0

\* The decoder table of the specification, row by row.
TableOp(m) ==
    IF Len(m) # 3 THEN NoOp
    ELSE IF m[1] = 144 /\ m[3] > 0 THEN PlayOp(m[2], m[3])
    ELSE IF m[1] = 144 /\ m[3] = 0 THEN StopOp(m[2])
    ELSE IF m[1] = 128 THEN StopOp(m[2])
    ELSE NoOp

\* C1 (as claimed): a NoteOff, or a NoteOn with velocity 0, processed for a
\* note that is Idle never fails the consumer thread, which goes on to wait
\* for the next event.
C1_IdleNoteOffNeverFails ==
    [][(/\ RecvStep
        /\ Decode(Head(queue)).kind = "stop"
        /\ Idle(Decode(Head(queue)).note))
       => (pc' = "recv" /\ evRx' = "alive")]_vars

\* C2 (as claimed): a device message arriving after the consumer side of the
\* event queue has been torn down leaves the queue as it is and does not
\* fail the device callback, which keeps running.
C2_EnqueueAfterTeardownIsNoOp ==
    [][(DeliverStep /\ evRx = "dropped")
       => (callback' = "running" /\ queue' = queue)]_vars

\* C3 (as claimed): when the output sink fails to open, connect() has not
\* returned Ok and no device connection is left accepting messages.
C3_SinkFailureAbortsConnect ==
    pc = "panic_open" => (result = "Err" /\ connection = "None")

\* C4: when connect() finds no input port it returns an error, stores no
\* device connection, creates no event queue and starts no consumer thread.
C4_NoPortIsFatal ==
    (result # "pending" /\ ports = 0)
    => /\ result = "Err"
       /\ connection = "None"
       /\ callback = "none"
       /\ evRx = "none"
       /\ queue = <<>>
       /\ pc = "unspawned"

\* C4 witness: connect() has returned after finding no port.
C4_Witness == result = "Err" /\ ports = 0

\* Existing voices of note n that have not been sent a cancellation signal.
Unsignalled(n) == { h \in Existing : voices[h].note = n /\ voices[h].sigs = 0 }

\* C5: whenever the consumer has fully processed its events so far (it waits
\* for the next one), every note has at most one existing voice that has not
\* been sent a cancellation signal, and that voice is the one whose handle
\* the registry holds for the note.
C5_OneUncancelledVoicePerNote ==
    pc = "recv" =>
        \A h \in DOMAIN voices :
            LET n == voices[h].note IN
            /\ Cardinality(Unsignalled(n)) <= 1
            /\ Unsignalled(n) \subseteq Get(sources, n)

\* C5 witness: after a retrigger, a note has a cancelled voice that still
\* exists and a registered voice that has not been sent a signal.
C5_Witness ==
    /\ pc = "recv"
    /\ \E g, h \in Existing :
        /\ g # h
        /\ voices[g].note = voices[h].note
        /\ voices[g].sigs > 0
        /\ voices[h].sigs = 0
        /\ h \in Get(sources, voices[h].note)

C7_FifoNoneDropped == dequeued \o queue = arrived

\* C8: each dequeued message is dispatched as the decoder table says: the
\* selected call is that of the table, a NoteOn enters play with the table's
\* note and velocity, a NoteOff leaves the registry alone, and an
\* Unrecognized message changes neither the registry nor any voice.
C8_DispatchFollowsTable ==
    [][RecvStep =>
        LET t == TableOp(Head(queue)) IN
        /\ op' = t
        /\ t.kind = "play" => (pc' = "play_insert" /\ UNCHANGED <<sources, voices>>)
        /\ t.kind = "stop" => (pc' \in {"recv", "panic_stop"}
                               /\ (pc' = "recv" => sources' = sources))
        /\ t.kind = "none" => (pc' = "recv" /\ UNCHANGED <<sources, voices>>)]_vars

\* C8 witness: a note-on with velocity 0 has been dispatched as a NoteOff.
C8_Witness ==
    /\ dequeued # <<>>
    /\ dequeued[Len(dequeued)] = <<144, 60, 0>>
    /\ op = StopOp(60)
    /\ pc = "recv"

\* C9: a NoteOff for a note with no registry entry does not fail the
\* consumer, leaves the registry and every voice unchanged, and so sends no
\* cancellation signal.
C9_NoteOffUnregisteredIsNoOp ==
    [][(/\ RecvStep
        /\ Decode(Head(queue)).kind = "stop"
        /\ Get(sources, Decode(Head(queue)).note) = {})
       => (pc' = "recv" /\ UNCHANGED <<sources, voices, stream, evRx>>)]_vars

\* C9 witness: a NoteOff has been processed for a note that has no entry,
\* while another note has a sounding voice.
C9_Witness ==
    /\ pc = "recv"
    /\ op.kind = "stop"
    /\ Get(sources, op.note) = {}
    /\ \E h \in DOMAIN voices : voices[h].state = "sounding"

\* C10 (as claimed): the registry holds at most one entry per note and at
\* most 128 entries in total, whatever messages arrive.
C10_RegistryBounded ==
    /\ \A e \in sources : Cardinality(Get(sources, e[1])) = 1
    /\ Cardinality(sources) <= 128

\* C15: frequency(note) is defined for every note in [0,127] (the i16
\* subtraction cannot overflow), is 440 Hz at 69, about 8.1758 Hz at 0 and
\* about 12543.854 Hz at 127 within the stated tolerances, doubles with
\* every octave as 440 * 2^((note - 69) / 12) does, and is strictly
\* increasing in note.  Frequencies are in units of 1/100000 Hz.
C15_FrequencyFormula ==
    fq.hz # -1 =>
        LET n == fq.note IN
        /\ fq.hz > 0
        /\ Semitones(n) = n - 69
        /\ n = 69 => fq.hz = 44000000
        /\ n = 0 => (fq.hz - 817580 <= 1 /\ 817580 - fq.hz <= 1)
        /\ n = 127 => (fq.hz - 1254385400 <= 10 /\ 1254385400 - fq.hz <= 10)
        /\ n >= 12 => (fq.hz - 2 * frequency(n - 12) <= 1
                       /\ 2 * frequency(n - 12) - fq.hz <= 1)
        /\ n < 127 => fq.hz < frequency(n + 1)

\* C15 witness: frequency() has been evaluated at the lowest note.
C15_Witness == fq.note = 0 /\ fq.hz = 817580

\* Indices of the pads that are active.
ActivePads == { i \in DOMAIN pad_state : pad_state[i] }

\* C20: at most one pad of the grid is active, and once a pad has been
\* pressed exactly one is: the pad at index row * cols + col of the most
\* recent press.
C20_OneActivePad ==
    /\ Cardinality(ActivePads) <= 1
    /\ last_press = <<>> => ActivePads = {}
    /\ last_press # <<>> => ActivePads = {last_press[1] * 8 + last_press[2]}

\* C20 witness: the last pad of the grid is active after another pad was.
C20_Witness == last_press = <<2, 7>> /\ pad_state[23] /\ mode = "Synth"

\* Note bytes that occur in the messages of the model.
NoteBytes == {60, 61, 200}

\* The consumer thread takes a step of processing an event for note n.
EventStepFor(n) ==
    \/ RecvStep /\ Decode(Head(queue)).kind # "none" /\ Decode(Head(queue)).note = n
    \/ pc \in {"play_insert", "play_signal", "play_add"} /\ pc' # pc /\ op.note = n

\* C11 (as claimed): processing a NoteOn or NoteOff for note n leaves every
\* voice of another note as it was (no signal sent to it, still sounding if
\* it was) and leaves the registry entries of every other note unchanged.
C11_OtherNotesUntouched ==
    [][\A n \in NoteBytes :
        EventStepFor(n) =>
            /\ \A h \in DOMAIN voices : voices[h].note # n => voices'[h] = voices[h]
            /\ { e \in sources' : e[1] # n } = { e \in sources : e[1] # n }]_vars

\* Voices that produce samples: handed to the mixer and not skipped.
Sounding(h) == h \in DOMAIN voices /\ voices[h].state = "sounding"

\* Voices that have stopped producing samples.
Stopped(h) == h \in DOMAIN voices /\ voices[h].state \in {"stopped", "dropped"}

\* C12: while the render context keeps polling, every voice that has been
\* sent a cancellation signal eventually stops producing samples; and once
\* a NoteOff for note n has been processed, eventually no voice of n is
\* sounding unless a later NoteOn for n is processed.
C12_CancelledVoiceStops ==
    /\ \A h \in 1..(LiveMsgs + 1) :
        (h \in DOMAIN voices /\ voices[h].sigs > 0) ~> Stopped(h)
    /\ \A n \in NoteBytes :
        (op = StopOp(n) /\ dequeued # <<>>)
            ~> (\/ \A h \in DOMAIN voices : voices[h].note = n => ~Sounding(h)
                \/ (op.kind = "play" /\ op.note = n))

\* C12 witness: a voice was cancelled by a NoteOff and has stopped at a poll
\* while the consumer thread is alive.
C12_Witness ==
    /\ pc = "recv"
    /\ op.kind = "stop"
    /\ \E h \in DOMAIN voices :
        voices[h].note = op.note /\ voices[h].sigs > 0 /\ voices[h].state = "stopped"

\* C13 (as claimed): a voice has stopped producing samples only if a
\* cancellation signal was sent on its own handle.
C13_StopsOnlyWhenCancelled ==
    \A h \in DOMAIN voices : Stopped(h) => voices[h].sigs > 0

\* C14: whenever two voices of the same note are both producing samples,
\* the older one has already been sent its cancellation signal, so its next
\* poll ends the overlap.
C14_OverlapOnlyUntilPoll ==
    \A g, h \in DOMAIN voices :
        (g < h /\ voices[g].note = voices[h].note /\ Sounding(g) /\ Sounding(h))
        => (voices[g].sigs > 0 /\ ENABLED PollVoice(g))

\* C14 witness: after a retrigger the previous voice of the note still
\* produces samples while the new voice does too.
C14_Witness ==
    \E g, h \in DOMAIN voices :
        g < h /\ voices[g].note = voices[h].note /\ Sounding(g) /\ Sounding(h)

\* C16: when play() signals an old handle whose voice has already finished,
\* the failed send is ignored: the consumer goes on to hand the new voice to
\* the mixer, the registry holds the new handle, and nothing else changes.
C16_StaleHandleIgnored ==
    [][/\ (pc = "play_signal" /\ pc' # pc /\ ~RxAlive(old))
          => /\ pc' = "play_add"
             /\ UNCHANGED <<sources, voices, evRx, queue, stream>>
             /\ Get(sources, op.note) = {Len(voices)}
       /\ (pc = "play_add" /\ pc' # pc /\ old # 0 /\ ~RxAlive(old))
          => /\ pc' = "recv"
             /\ UNCHANGED <<sources, evRx, queue, stream>>
             /\ voices' = [voices EXCEPT ![Len(voices)].state = "sounding"]]_vars

\* C16 witness: NoteOn, NoteOff, the voice finished, NoteOn again: the old
\* voice holds only the NoteOff's signal and the new voice is sounding.
C16_Witness ==
    /\ pc = "recv"
    /\ dequeued = << <<144, 60, 100>>, <<128, 60, 64>>, <<144, 60, 100>> >>
    /\ voices[1].state = "dropped" /\ voices[1].sigs = 1
    /\ voices[2].state = "sounding"
    /\ Get(sources, 60) = {2}

\* The message is a NoteOn with velocity > 0 by the decoder table.
IsNoteOn(m) == TableOp(m).kind = "play"

\* The NoteOn events the consumer has taken so far, in order.
NoteOns == SelectSeq(dequeued, IsNoteOn)

\* Voices that have been handed to the mixer.
Handed == { h \in DOMAIN voices : voices[h].state # "created" }

\* C17: the voices handed to the mixer are, one for one and in order, the
\* NoteOn (velocity > 0) events processed: each has that event's note as
\* the argument of frequency() and amplitude velocity/127; no other message
\* creates a voice.  A NoteOn being processed has its voice created by the
\* insert and handed over at the end of play().
C17_OneVoicePerNoteOn ==
    /\ Len(voices) = Len(NoteOns) - (IF pc = "play_insert" THEN 1 ELSE 0)
    /\ Cardinality(Handed) =
         Len(NoteOns) - (IF pc \in {"play_insert", "play_signal", "play_add"} THEN 1 ELSE 0)
    /\ \A h \in DOMAIN voices :
        /\ SourceNote(h) = NoteOns[h][2]
        /\ SourceAmplitude(h) = <<NoteOns[h][3], 127>>

\* C17 witness: two voices exist after three processed messages, one of
\* which was not a NoteOn with velocity > 0.
C17_Witness ==
    /\ pc = "recv"
    /\ Len(dequeued) = 3
    /\ Cardinality(Handed) = 2

\* C18 (as claimed): no step removes a registry entry: registered notes stay
\* registered, a NoteOff or NoteOn with velocity 0 leaves the mapping as it
\* was, and an entry changes only in play()'s insert for the same note.
C18_EntriesNeverRemoved ==
    [][/\ \A e \in sources : Get(sources', e[1]) # {}
       /\ (RecvStep /\ Decode(Head(queue)).kind = "stop") => sources' = sources
       /\ \A e \in sources :
            e \notin sources' => (pc = "play_insert" /\ op.note = e[1])]_vars

\* Voices the mixer holds.
InMixer(h) == voices[h].state \in {"sounding", "stopped"}

\* C19: the mixer never holds two voices of the same note that have both
\* not been sent a cancellation signal, and while a retrigger has yet to
\* signal the old voice the new one is not in the mixer.
C19_SignalBeforeMixerAdd ==
    /\ \A g, h \in DOMAIN voices :
        (g # h /\ voices[g].note = voices[h].note /\ InMixer(g) /\ InMixer(h))
        => (voices[g].sigs > 0 \/ voices[h].sigs > 0)
    /\ pc = "play_signal" => ~InMixer(Len(voices))

\* C19 witness: a retrigger has signalled the old voice, which the mixer
\* still holds, and has not yet handed the new voice to the mixer.
C19_Witness ==
    /\ pc = "play_add"
    /\ old # 0
    /\ InMixer(old)
    /\ voices[old].sigs = 1
    /\ voices[Len(voices)].state = "created"

====
